---- MODULE Spec2Model ----
(***************************************************************************)
(* A model of eden-crypto: the prime generator (prime_generator.py), the   *)
(* wheel (extended_wheel.py), the decimal rivers filter                    *)
(* (decimal_rivers.py) and the Coibite Code provenance records             *)
(* (coibite_codes.py).                                                     *)
(*                                                                         *)
(* Several state machines share the module:                                *)
(*   Spec      a PrimeGenerator serving generate_prime,                    *)
(*             generate_prime_pair and generate_prime_with_provenance      *)
(*             calls (SpecFair: the same with a loop that keeps running);  *)
(*   SpecCode  one CoibiteCode through construction, sign, encode, the     *)
(*             token in transit (where it may be altered), decode, verify  *)
(*             and verify_integrity;                                       *)
(*   SpecBatch the module functions batch_encode and batch_decode;         *)
(*   SpecWheel an ExtendedWheel serving generate_candidates and sieve      *)
(*             calls, and the module function is_prime_wheel;              *)
(*   SpecMR    the generator's _generate_candidate and _miller_rabin       *)
(*             called on their own;                                        *)
(*   SpecRivers a DecimalRivers serving analyze_primes, get_river_score    *)
(*             and optimize_candidates calls;                              *)
(*   SpecPrivacy SpecCode and SpecBatch as one program.                    *)
(* Python exceptions are modelled by their class name in an error          *)
(* variable; "none" is a normal return.                                    *)
(***************************************************************************)
EXTENDS Integers, Sequences, FiniteSets, TLC

VARIABLES
    \* ---- PrimeGenerator (Spec)
    gen,          \* the generator's fields, fixed by __init__
    api,          \* the public method in progress: "none", "generate_prime", "generate_prime_pair"
    pc,           \* "idle", "loop" (inside _generate_prime_internal), "done"
    bits,         \* the bits argument of the call
    leg,          \* generate_prime_pair: "p", "q" (which prime is being generated), "-" otherwise
    draws,        \* secrets.randbits calls made by the call so far
    candidate,    \* the last candidate drawn
    mr_witnesses, \* the witnesses random.randrange gave the accepting Miller-Rabin run
    created,      \* CoibiteCode objects constructed by the call so far
    ret,          \* what the call returned (meaningful when pc = "done" and error = "none")
    error,        \* the exception that ended the call, or "none"
    \* ---- CoibiteCode (SpecCode)
    cpc,          \* "new", "live", "encoded", "decoded"
    rec,          \* the CoibiteCode object: prime, timestamp, metadata, signature
    include_prime,\* the include_prime argument of the encode call
    token,        \* the encoded string, as the layers decode peels off
    tamper,       \* what was done to the token in transit: "none" or the kind of change
    dec,          \* the CoibiteCode object decode returned
    dec_error,    \* the exception decode raised, or "none"
    verified,     \* the verify call made: target, key, the signature held, result, exception
    integrity,    \* the verify_integrity call made on dec: result
    \* ---- batch_encode / batch_decode (SpecBatch)
    batch,        \* the batch_encode call made and the batch_decode call on its result
    \* ---- ExtendedWheel and is_prime_wheel (SpecWheel)
    wpc,          \* "new", "ready" (the constructor returned), "failed" (it raised)
    wheel_obj,    \* the ExtendedWheel object
    wcall,        \* the last call made: op, arguments, result
    \* ---- _generate_candidate and _miller_rabin called on their own (SpecMR)
    cand,         \* the _generate_candidate call made: bits, value, the generator drawn from
    mrcall,       \* the _miller_rabin call made: n, rounds, witnesses drawn, their generator, result
    \* ---- DecimalRivers (SpecRivers)
    rivers,       \* the DecimalRivers object: transition_matrix, digit_frequencies, prime_cache
    rcall         \* analyze_primes calls made so far and the scoring call made: op, argument, result

genVars == <<gen, api, pc, bits, leg, draws, candidate, mr_witnesses, created, ret, error>>
codeVars == <<cpc, rec, include_prime, token, tamper, dec, dec_error, verified, integrity>>
libVars == <<batch, wpc, wheel_obj, wcall, cand, mrcall, rivers, rcall>>
vars == <<genVars, codeVars, libVars>>

(***************************************************************************)
(* Bounds of the model.                                                    *)
(***************************************************************************)
\* bits arguments tried: MIN_BITS - 1 .. MaxBits
MaxBits == 17
\* secrets.randbits(bits) is sampled at 0..MaxRaw and 2^bits-1-MaxRaw..2^bits-1
MaxRaw == 5
\* miller_rabin_rounds ranges over 1..MaxRounds
MaxRounds == 2
\* time.time() ranges over 1..MaxTime
MaxTime == 2
\* random.randrange(2, n - 1) is sampled at 2..2+MaxWitness
MaxWitness == 3
\* a call is followed for at most MaxDraws candidates
MaxDraws == 3

\* prime_generator.py:69, the least accepted bit length
MIN_BITS == 16

(***************************************************************************)
(* Integer helpers: Python's int operations used by the code.              *)
(***************************************************************************)
RECURSIVE Pow2(_)
Pow2(k) == IF k <= 0 THEN 1 ELSE 2 * Pow2(k - 1)

Abs(n) == IF n < 0 THEN -n ELSE n

\* int.bit_length(): the bits of |n|, 0 for 0
RECURSIVE bit_length(_)
bit_length(n) == IF n = 0 THEN 0 ELSE 1 + bit_length(Abs(n) \div 2)

\* x | (1 << k) for x >= 0
OrBit(x, k) == IF (x \div Pow2(k)) % 2 = 1 THEN x ELSE x + Pow2(k)

\* int(n ** 0.5): the integer square root (exact at the model's magnitudes)
RECURSIVE ISqrtFrom(_, _)
ISqrtFrom(n, r) == IF (r + 1) * (r + 1) > n THEN r ELSE ISqrtFrom(n, r + 1)
ISqrt(n) == ISqrtFrom(n, 0)

\* pow(a, e, n)
RECURSIVE ModPow(_, _, _)
ModPow(a, e, n) ==
    IF e = 0 THEN 1 % n
    ELSE LET h == ModPow(a, e \div 2, n)
             sq == (h * h) % n
         IN  IF e % 2 = 1 THEN (sq * a) % n ELSE sq

\* Python attribute lookup: obj.name resolves iff the class or its __init__ defines name
HasAttr(attrs, name) == name \in attrs

(***************************************************************************)
(* extended_wheel.py                                                       *)
(***************************************************************************)
WHEEL_BASIS ==
    [w \in {6, 30, 210, 2310, 30030} |->
        CASE w = 6 -> <<2, 3>>
          [] w = 30 -> <<2, 3, 5>>
          [] w = 210 -> <<2, 3, 5, 7>>
          [] w = 2310 -> <<2, 3, 5, 7, 11>>
          [] w = 30030 -> <<2, 3, 5, 7, 11, 13>>]

\* what an ExtendedWheel instance answers to: the class's methods and the
\* fields __init__ sets
ExtendedWheelAttrs ==
    {"WHEEL_BASIS", "wheel_size", "basis_primes", "decimal_aware", "spokes",
     "spoke_count", "decimal_weights", "_generate_spokes",
     "_compute_decimal_weights", "generate_candidates", "sieve", "_simple_sieve",
     "_segmented_sieve", "_get_small_primes", "get_efficiency", "__repr__"}

\* all(i % p != 0 for p in basis_primes)
CoprimeToBasis(i, basis) == \A k \in 1..Len(basis) : i % basis[k] # 0

\* _generate_spokes with any(...) in place of all(...): a residue is kept as soon
\* as one basis prime does not divide it
_generate_spokes_AnyPrime(wheel_size, basis) ==
    SelectSeq([i \in 1..(wheel_size - 1) |-> i],
              LAMBDA i : \E k \in 1..Len(basis) : i % basis[k] # 0)

_generate_spokes(wheel_size, basis) ==
    SelectSeq([i \in 1..(wheel_size - 1) |-> i], LAMBDA i : CoprimeToBasis(i, basis))

\* the weights in hundredths: 1.02, 0.98, 1.01, 0.99 and 0.0
_compute_decimal_weights ==
    [d \in 0..9 |-> CASE d = 1 -> 102 [] d = 3 -> 98 [] d = 7 -> 101 [] d = 9 -> 99
                      [] OTHER -> 0]

\* ExtendedWheel(wheel_size, decimal_aware), for a supported wheel_size
ExtendedWheel(wheel_size, decimal_aware) ==
    LET basis == WHEEL_BASIS[wheel_size]
        spokes == _generate_spokes(wheel_size, basis)
    IN  [wheel_size |-> wheel_size, basis_primes |-> basis,
         decimal_aware |-> decimal_aware, spokes |-> spokes,
         spoke_count |-> Len(spokes)]

\* the candidates the wheel loop of generate_candidates computes, in the order it
\* computes them: block after block from wheel_start while current_wheel <= end,
\* and in each block spoke after spoke
WheelWalk(wheel, wheel_start, end) ==
    LET blocks == IF wheel_start > end THEN 0
                  ELSE (end - wheel_start) \div wheel.wheel_size + 1
        n == Len(wheel.spokes)
    IN  [k \in 1..(blocks * n) |->
            wheel_start + ((k - 1) \div n) * wheel.wheel_size
                + wheel.spokes[((k - 1) % n) + 1]]

\* how far the wheel loop gets: the first candidate beyond end makes it return
WalkedBeforeReturn(walk, end) ==
    LET beyond == {k \in 1..Len(walk) : walk[k] > end}
    IN  IF beyond = {} THEN walk
        ELSE SubSeq(walk, 1, (CHOOSE k \in beyond : \A j \in beyond : k <= j) - 1)

\* the decimal weighting of a candidate inside the range: weight > 0.5
GoodDecimalProfile(wheel, c) ==
    ~wheel.decimal_aware \/ _compute_decimal_weights[c % 10] > 50

\* the values generate_candidates(start, end) yields, in order
generate_candidates(wheel, start, end) ==
    LET wheel_start == ((start - 1) \div wheel.wheel_size + 1) * wheel.wheel_size
        walked == WalkedBeforeReturn(WheelWalk(wheel, wheel_start, end), end)
    IN  SelectSeq(wheel.basis_primes, LAMBDA p : start <= p /\ p <= end)
        \o SelectSeq(walked, LAMBDA c : start <= c /\ c <= end /\ GoodDecimalProfile(wheel, c))

\* the trial-division loop of is_prime_wheel over the candidates cs from index i
RECURSIVE TrialDivide(_, _, _)
TrialDivide(n, cs, i) ==
    IF i > Len(cs) THEN TRUE
    ELSE IF cs[i] * cs[i] > n THEN TRUE
    ELSE IF n % cs[i] = 0 THEN FALSE
    ELSE TrialDivide(n, cs, i + 1)

\* the module function is_prime_wheel(n, wheel_size)
is_prime_wheel(n, wheel_size) ==
    IF n < 2 THEN FALSE
    ELSE LET wheel == ExtendedWheel(wheel_size, TRUE)
             basis == wheel.basis_primes
         IN  IF \E k \in 1..Len(basis) : basis[k] = n THEN TRUE
             ELSE IF \E k \in 1..Len(basis) : n % basis[k] = 0 THEN FALSE
             ELSE TrialDivide(n, generate_candidates(wheel, 2, ISqrt(n) + 1), 1)

\* the loop of _get_small_primes from i on: the multiples of each i still marked
\* prime are crossed out from i * i
RECURSIVE CrossOut(_, _, _)
CrossOut(is_prime, i, limit) ==
    IF i > ISqrt(limit) THEN is_prime
    ELSE IF is_prime[i]
    THEN CrossOut([j \in 0..limit |->
                      is_prime[j] /\ ~(j >= i * i /\ (j - i * i) % i = 0)],
                  i + 1, limit)
    ELSE CrossOut(is_prime, i + 1, limit)

\* _get_small_primes(limit)
_get_small_primes(limit) ==
    IF limit < 2 THEN << >>
    ELSE LET is_prime == CrossOut([j \in 0..limit |-> j >= 2], 2, limit)
         IN  SelectSeq([i \in 1..limit |-> i], LAMBDA i : is_prime[i])

\* _simple_sieve(start, end): each candidate is divided by the small primes up to
\* its square root
_simple_sieve(wheel, start, end) ==
    LET candidates == generate_candidates(wheel, IF start > 2 THEN start ELSE 2, end)
        small_primes == _get_small_primes(ISqrt(end) + 1)
    IN  SelectSeq(candidates, LAMBDA c : TrialDivide(c, small_primes, 1))

\* the default segment_size of _segmented_sieve (extended_wheel.py:153)
SEGMENT_SIZE == 100000

\* the for p in small_primes loop of _segmented_sieve from the k-th prime on:
\* start_idx is the first candidate that is a multiple of p other than p itself
\* (index 1 when there is none), and from there every such multiple is marked
RECURSIVE MarkMultiples(_, _, _, _)
MarkMultiples(is_prime, candidates, small_primes, k) ==
    IF k > Len(small_primes) THEN is_prime
    ELSE LET p == small_primes[k]
             Multiple(i) == candidates[i] % p = 0 /\ candidates[i] # p
             hits == {i \in 1..Len(candidates) : Multiple(i)}
             start_idx == IF hits = {} THEN 1
                          ELSE CHOOSE i \in hits : \A j \in hits : i <= j
         IN  MarkMultiples([i \in 1..Len(candidates) |->
                               is_prime[i] /\ ~(i >= start_idx /\ Multiple(i))],
                           candidates, small_primes, k + 1)

\* one segment of _segmented_sieve: the candidates left unmarked
SieveSegment(candidates, small_primes) ==
    LET is_prime == MarkMultiples([i \in 1..Len(candidates) |-> TRUE],
                                  candidates, small_primes, 1)
        kept == SelectSeq([i \in 1..Len(candidates) |-> i], LAMBDA i : is_prime[i])
    IN  [i \in 1..Len(kept) |-> candidates[kept[i]]]

\* the while loop of _segmented_sieve from current on
RECURSIVE SegmentLoop(_, _, _, _, _)
SegmentLoop(wheel, current, end, segment_size, small_primes) ==
    IF current > end THEN << >>
    ELSE LET segment_end == IF current + segment_size < end
                            THEN current + segment_size ELSE end
             candidates == generate_candidates(wheel, current, segment_end)
         IN  SieveSegment(candidates, small_primes)
             \o SegmentLoop(wheel, segment_end + 1, end, segment_size, small_primes)

\* _segmented_sieve(start, end, segment_size)
_segmented_sieve(wheel, start, end, segment_size) ==
    SegmentLoop(wheel, start, end, segment_size, _get_small_primes(ISqrt(end) + 1))

\* ranges shorter than this are sieved by _simple_sieve (extended_wheel.py:124)
SMALL_RANGE == 10000

\* sieve(start, end)
sieve(wheel, start, end) ==
    IF end < 2 THEN << >>
    ELSE IF end - start < SMALL_RANGE THEN _simple_sieve(wheel, start, end)
    ELSE _segmented_sieve(wheel, start, end, SEGMENT_SIZE)

(***************************************************************************)
(* decimal_rivers.py                                                       *)
(***************************************************************************)
DecimalRiversAttrs ==
    {"transition_matrix", "digit_frequencies", "prime_cache", "analyze_primes",
     "_compile_analysis", "get_river_score", "optimize_candidates",
     "generate_statistics"}

\* a fresh Counter: a dict with no key
NoFrequencies == << >>

\* Counter[key]: the count, 0 for a key the Counter does not hold
\* (Counter.__missing__ returns 0 and stores nothing)
CounterGet(counter, key) == IF key \in DOMAIN counter THEN counter[key] ELSE 0

\* Counter[key] += 1
Increment(counter, key) ==
    IF key \in DOMAIN counter THEN [counter EXCEPT ![key] = @ + 1]
    ELSE counter @@ (key :> 1)

\* DecimalRivers()
DecimalRivers ==
    [transition_matrix |-> << >>, digit_frequencies |-> NoFrequencies,
     prime_cache |-> << >>]

\* sum(f.values()) over the keys 0..d
RECURSIVE SumTo(_, _)
SumTo(f, d) == IF d < 0 THEN 0 ELSE CounterGet(f, d) + SumTo(f, d - 1)

\* the first loop of analyze_primes from index i on
RECURSIVE CountEndings(_, _, _)
CountEndings(digit_frequencies, primes, i) ==
    IF i > Len(primes) THEN digit_frequencies
    ELSE CountEndings(IF primes[i] > 5
                      THEN Increment(digit_frequencies, primes[i] % 10)
                      ELSE digit_frequencies,
                      primes, i + 1)

\* the second loop of analyze_primes from index i on; transition_matrix[a][b] is
\* kept at the key <<a, b>>
RECURSIVE CountTransitions(_, _, _)
CountTransitions(transition_matrix, primes, i) ==
    IF i > Len(primes) - 1 THEN transition_matrix
    ELSE CountTransitions(IF primes[i] > 5 /\ primes[i + 1] > 5
                          THEN Increment(transition_matrix,
                                         <<primes[i] % 10, primes[i + 1] % 10>>)
                          ELSE transition_matrix,
                          primes, i + 1)

\* analyze_primes(primes): the object afterwards (the dict it returns is compiled
\* from the counters without changing them)
analyze_primes(self, primes) ==
    [transition_matrix |-> CountTransitions(self.transition_matrix, primes, 1),
     digit_frequencies |-> CountEndings(self.digit_frequencies, primes, 1),
     prime_cache |-> primes]

\* get_river_score without the check of the last digit
get_river_score_AnyDigit(digit_frequencies, c) ==
    LET total == SumTo(digit_frequencies, 9)
    IN  IF DOMAIN digit_frequencies = {} THEN <<1, 2>>
        ELSE IF total > 0 THEN <<CounterGet(digit_frequencies, c % 10), total>>
        ELSE <<1, 2>>

\* self.digit_frequencies after Counter[key] was read: __missing__ answers 0 for
\* a key the Counter does not hold and stores nothing
AfterGet(counter, key) == counter

\* self.digit_frequencies after get_river_score(c): line 99 reads the Counter
\* when the digit is valid and the Counter is not empty
AfterScore(digit_frequencies, c) ==
    IF c % 10 \in {1, 3, 7, 9} /\ DOMAIN digit_frequencies # {}
    THEN AfterGet(digit_frequencies, c % 10)
    ELSE digit_frequencies

\* self.digit_frequencies after the scores of candidates[i..] were taken
RECURSIVE AfterScores(_, _, _)
AfterScores(digit_frequencies, candidates, i) ==
    IF i > Len(candidates) THEN digit_frequencies
    ELSE AfterScores(AfterScore(digit_frequencies, candidates[i]), candidates, i + 1)

\* get_river_score as the fraction <<numerator, denominator>>
get_river_score(digit_frequencies, c) ==
    LET last_digit == c % 10
        total == SumTo(digit_frequencies, 9)
    IN  IF last_digit \notin {1, 3, 7, 9} THEN <<0, 1>>
        ELSE IF DOMAIN digit_frequencies = {} THEN <<1, 2>>
        ELSE IF total > 0 THEN <<CounterGet(digit_frequencies, last_digit), total>>
        ELSE <<1, 2>>

\* scored.sort(key=score, reverse=True), a stable sort: c goes after the
\* candidates of sorted whose score is greater than or equal to its own
RECURSIVE InsertByScore(_, _, _)
InsertByScore(digit_frequencies, sorted, c) ==
    IF sorted = << >> THEN <<c>>
    ELSE LET h == get_river_score(digit_frequencies, Head(sorted))
             s == get_river_score(digit_frequencies, c)
         IN  IF h[1] * s[2] >= s[1] * h[2]
             THEN <<Head(sorted)>> \o InsertByScore(digit_frequencies, Tail(sorted), c)
             ELSE <<c>> \o sorted

RECURSIVE SortByScore(_, _, _)
SortByScore(digit_frequencies, candidates, n) ==
    IF n = 0 THEN << >>
    ELSE InsertByScore(digit_frequencies,
                       SortByScore(digit_frequencies, candidates, n - 1), candidates[n])

\* optimize_candidates(candidates): the candidates by descending score, those
\* with score > 0.2
optimize_candidates(digit_frequencies, candidates) ==
    SelectSeq(SortByScore(digit_frequencies, candidates, Len(candidates)),
              LAMBDA c : LET s == get_river_score(digit_frequencies, c)
                         IN  5 * s[1] > s[2])

(***************************************************************************)
(* prime_generator.py: the pure parts                                      *)
(***************************************************************************)
\* secrets.randbits(bits) | (1 << (bits - 1)) | 1
_generate_candidate(nbits, raw) == OrBit(OrBit(raw, nbits - 1), 0)

\* n - 1 = 2^r * d: the pair <<r, d>>
RECURSIVE Decompose(_, _)
Decompose(r, d) == IF d % 2 = 0 THEN Decompose(r + 1, d \div 2) ELSE <<r, d>>

\* the inner loop left out: a round passes only on x = 1 or x = n - 1
SquareLoop_Skipped(x, n, left) == FALSE

\* the inner loop: up to `left` squarings of x, looking for n - 1
RECURSIVE SquareLoop(_, _, _)
SquareLoop(x, n, left) ==
    IF left = 0 THEN FALSE
    ELSE LET y == (x * x) % n
         IN  IF y = n - 1 THEN TRUE ELSE SquareLoop(y, n, left - 1)

\* a round as Fermat's test: a ^ (n - 1) = 1 (mod n)
WitnessPasses_Fermat(n, a) == ModPow(a, n - 1, n) = 1

\* one round of the witness loop with witness a: TRUE when the round passes
WitnessPasses(n, a) ==
    LET rd == Decompose(0, n - 1)
        x == ModPow(a, rd[2], n)
    IN  IF x = 1 \/ x = n - 1 THEN TRUE ELSE SquareLoop(x, n, rd[1] - 1)

\* _miller_rabin(n, rounds) when random.randrange(2, n - 1) returns ws[1], ws[2], ...
\* (rounds = Len(ws)); the first failing round returns False
_miller_rabin(n, ws) ==
    IF n < 2 THEN FALSE
    ELSE IF n = 2 \/ n = 3 THEN TRUE
    ELSE IF n % 2 = 0 THEN FALSE
    ELSE \A k \in 1..Len(ws) : WitnessPasses(n, ws[k])

(***************************************************************************)
(* prime_generator.py: PrimeGenerator                                      *)
(***************************************************************************)
BitsArgs == (MIN_BITS - 1)..MaxBits

\* the values of secrets.randbits(nbits) the model samples
RandBits(nbits) == (0..MaxRaw) \cup ((Pow2(nbits) - 1 - MaxRaw)..(Pow2(nbits) - 1))

\* the values of random.randrange(2, n - 1) the model samples
RandRange(n) == {a \in 2..(2 + MaxWitness) : a <= n - 2}

\* coibite_code = None
NoCode ==
    [present |-> FALSE, prime |-> 0, timestamp |-> 0,
     metadata |-> [bits |-> 0, wheel_size |-> 0, decimal_rivers_enabled |-> FALSE,
                   miller_rabin_rounds |-> 0, generation_time_seconds |-> 0]]

NoReturn == [p |-> 0, coibite_p |-> NoCode, q |-> 0, coibite_q |-> NoCode]

\* PrimeGenerator(wheel_size, use_decimal_rivers, track_provenance, miller_rabin_rounds):
\* decimal_rivers says whether self.decimal_rivers is a DecimalRivers (else None),
\* digit_frequencies is that object's Counter
PrimeGenerator(wheel_size, use_decimal_rivers, track_provenance, miller_rabin_rounds) ==
    [wheel_size |-> wheel_size, decimal_rivers |-> use_decimal_rivers,
     digit_frequencies |-> NoFrequencies, track_provenance |-> track_provenance,
     miller_rabin_rounds |-> miller_rabin_rounds]

\* one pass of the loop of _generate_prime_internal up to the Miller-Rabin call:
\* "AttributeError" (a method the object does not have), "continue" (candidate
\* rejected) or "miller_rabin" (both filters passed)
BeforeMillerRabin(g, c) ==
    LET score == get_river_score(g.digit_frequencies, c)
    IN  IF g.decimal_rivers /\ ~HasAttr(DecimalRiversAttrs, "calculate_prime_weight")
        THEN "AttributeError"
        ELSE IF g.decimal_rivers /\ 10 * score[1] < 3 * score[2] THEN "continue"
        ELSE IF ~HasAttr(ExtendedWheelAttrs, "is_prime_wheel") THEN "AttributeError"
        ELSE IF ~is_prime_wheel(c, g.wheel_size) THEN "continue"
        ELSE "miller_rabin"

\* generate_prime after _generate_prime_internal returned prime: the provenance
\* record, or the exception raised while building its metadata
Provenance(g, nbits, prime, now, generation_time) ==
    IF ~g.track_provenance THEN [error |-> "none", code |-> NoCode]
    ELSE IF ~HasAttr(ExtendedWheelAttrs, "size")
    THEN [error |-> "AttributeError", code |-> NoCode]
    ELSE [error |-> "none",
          code |-> [present |-> TRUE, prime |-> prime, timestamp |-> now,
                    metadata |-> [bits |-> nbits, wheel_size |-> g.wheel_size,
                                  decimal_rivers_enabled |-> g.decimal_rivers,
                                  miller_rabin_rounds |-> g.miller_rabin_rounds,
                                  generation_time_seconds |-> generation_time]]]

\* the exception e leaves generate_prime (and generate_prime_pair above it)
Raise(e) ==
    /\ error' = e
    /\ pc' = "done"
    /\ UNCHANGED <<ret, created, mr_witnesses, leg>>

\* the loop goes round again
Continue == UNCHANGED <<error, pc, ret, created, mr_witnesses, leg>>

\* generate_prime returns (prime, code) to its caller: the user, or
\* generate_prime_pair, which stores it as p or q and re-draws q while q == p
Return(prime, code) ==
    /\ error' = "none"
    /\ IF api \in {"generate_prime", "generate_prime_with_provenance"}
       THEN /\ ret' = [ret EXCEPT !.p = prime, !.coibite_p = code]
            /\ pc' = "done"
            /\ leg' = leg
       ELSE IF leg = "p"
       THEN /\ ret' = [ret EXCEPT !.p = prime, !.coibite_p = code]
            /\ pc' = "loop"
            /\ leg' = "q"
       ELSE /\ ret' = [ret EXCEPT !.q = prime, !.coibite_q = code]
            /\ pc' = IF prime = ret.p THEN "loop" ELSE "done"
            /\ leg' = leg

\* the candidate passed Miller-Rabin: the rest of generate_prime
Accept(prime, ws) ==
    \E now \in 1..MaxTime, generation_time \in 0..MaxTime :
        LET out == Provenance(gen, bits, prime, now, generation_time)
        IN  IF out.error # "none"
            THEN Raise(out.error)
            ELSE /\ mr_witnesses' = ws
                 /\ created' = created + (IF out.code.present THEN 1 ELSE 0)
                 /\ Return(prime, out.code)

\* generate_prime(bits) is called: the bits check
generate_prime(b) ==
    /\ pc = "idle"
    /\ api' = "generate_prime"
    /\ bits' = b
    /\ IF b < MIN_BITS
       THEN /\ error' = "ValueError"
            /\ pc' = "done"
       ELSE /\ error' = "none"
            /\ pc' = "loop"
    /\ UNCHANGED <<gen, leg, draws, candidate, mr_witnesses, created, ret>>
    /\ UNCHANGED <<codeVars, libVars>>

\* generate_prime_pair(bits) is called: its first generate_prime call begins
generate_prime_pair(b) ==
    /\ pc = "idle"
    /\ api' = "generate_prime_pair"
    /\ bits' = b
    /\ leg' = "p"
    /\ IF b < MIN_BITS
       THEN /\ error' = "ValueError"
            /\ pc' = "done"
       ELSE /\ error' = "none"
            /\ pc' = "loop"
    /\ UNCHANGED <<gen, draws, candidate, mr_witnesses, created, ret>>
    /\ UNCHANGED <<codeVars, libVars>>

\* the module function generate_prime_with_provenance(bits, **kwargs): the
\* track_provenance keyword is overwritten with True, a new PrimeGenerator is
\* built from the keywords, and its generate_prime(bits) is called
generate_prime_with_provenance(b) ==
    /\ pc = "idle"
    /\ api' = "generate_prime_with_provenance"
    /\ bits' = b
    /\ \E w \in DOMAIN WHEEL_BASIS, dr \in BOOLEAN, tp \in BOOLEAN, mr \in 1..MaxRounds :
           gen' = PrimeGenerator(w, dr, TRUE, mr)
    /\ IF b < MIN_BITS
       THEN /\ error' = "ValueError"
            /\ pc' = "done"
       ELSE /\ error' = "none"
            /\ pc' = "loop"
    /\ UNCHANGED <<leg, draws, candidate, mr_witnesses, created, ret>>
    /\ UNCHANGED <<codeVars, libVars>>

\* the lists a caller hands to the generator's DecimalRivers before generating: the
\* four endings once each, one ending only, basis primes only
GeneratorObservedLists == {<<7, 11, 13, 19>>, <<7>>, <<2, 3>>}

\* gen.decimal_rivers.analyze_primes(primes), called by the owner of the
\* generator before any prime is asked for (the generator itself never calls it)
decimal_rivers_analyze_primes ==
    /\ pc = "idle"
    /\ gen.decimal_rivers
    /\ gen.digit_frequencies = NoFrequencies
    /\ \E primes \in GeneratorObservedLists :
           /\ CountEndings(gen.digit_frequencies, primes, 1) # NoFrequencies
           /\ gen' = [gen EXCEPT !.digit_frequencies = CountEndings(@, primes, 1)]
    /\ UNCHANGED <<api, pc, bits, leg, draws, candidate, mr_witnesses, created, ret, error>>
    /\ UNCHANGED <<codeVars, libVars>>

\* one pass of the while True loop of _generate_prime_internal, with what follows
\* it in generate_prime (and generate_prime_pair) when the candidate is accepted
_generate_prime_internal ==
    /\ pc = "loop"
    /\ draws < MaxDraws
    /\ \E raw \in RandBits(bits) :
        LET c == _generate_candidate(bits, raw)
            before == BeforeMillerRabin(gen, c)
        IN  /\ candidate' = c
            /\ draws' = draws + 1
            /\ IF before = "AttributeError" THEN Raise("AttributeError")
               ELSE IF before = "continue" THEN Continue
               ELSE \E ws \in [1..gen.miller_rabin_rounds -> RandRange(c)] :
                        IF _miller_rabin(c, ws) THEN Accept(c, ws) ELSE Continue
    /\ UNCHANGED <<gen, api, bits>>
    /\ UNCHANGED <<codeVars, libVars>>

InitGen ==
    /\ gen \in {PrimeGenerator(w, dr, tp, mr) :
                    w \in DOMAIN WHEEL_BASIS, dr \in BOOLEAN, tp \in BOOLEAN,
                    mr \in 1..MaxRounds}
    /\ api = "none"
    /\ pc = "idle"
    /\ bits = 0
    /\ leg = "-"
    /\ draws = 0
    /\ candidate = 0
    /\ mr_witnesses = <<>>
    /\ created = 0
    /\ ret = NoReturn
    /\ error = "none"

(***************************************************************************)
(* coibite_codes.py: values                                                *)
(*                                                                         *)
(* SHA-256 and ECDSA are modelled symbolically: a digest is the text       *)
(* "sha256(<input>)", so equal digests mean equal inputs, and a signature  *)
(* names the key and the bytes it was made over.  Strings are built as the *)
(* code builds them, so two digests agree exactly when the code hashes the *)
(* same text.                                                              *)
(***************************************************************************)
VERSION == "1.0"

\* the primes a record is made for
PrimeValues == {0, 7, 32771}

\* metadata: a dict with string keys (here in sort_keys order) and string values
MetaKeys == <<"bits", "checksum">>
MetaValues == {"a", "b"}
KeySet == {MetaKeys[i] : i \in 1..Len(MetaKeys)}
Metadatas == UNION {[S -> MetaValues] : S \in SUBSET KeySet}

PrivateKeys == {"A", "B"}
\* private_key.public_key()
public_key(private_key) == private_key
\* what a caller may pass verify: a public key, or something that is no key
VerifyArgs == PrivateKeys \cup {"None"}

\* signature values: None, b"", bytes that are no DER signature, a real signature
NoneSig == [kind |-> "None", key |-> "", data |-> ""]
EmptySig == [kind |-> "empty", key |-> "", data |-> ""]
JunkSig == [kind |-> "junk", key |-> "", data |-> ""]
\* private_key.sign(data, ec.ECDSA(hashes.SHA256()))
EcdsaSign(private_key, data) == [kind |-> "ecdsa", key |-> private_key, data |-> data]

\* Python truth of self.signature: None and b"" are false
Truthy(sig) == sig.kind \notin {"None", "empty"}

\* public_key.verify(signature, data, ...): "ok", or the exception it raises
EcdsaVerify(pub, sig, data) ==
    IF pub \notin PrivateKeys THEN "AttributeError"
    ELSE IF sig.kind = "ecdsa" /\ public_key(sig.key) = pub /\ sig.data = data THEN "ok"
    ELSE "InvalidSignature"

\* json.dumps(metadata, sort_keys=True): the keys from index i on
RECURSIVE DumpItems(_, _, _)
DumpItems(m, i, first) ==
    IF i > Len(MetaKeys) THEN ""
    ELSE IF MetaKeys[i] \in DOMAIN m
    THEN (IF first THEN "" ELSE ", ")
         \o "\"" \o MetaKeys[i] \o "\": \"" \o m[MetaKeys[i]] \o "\""
         \o DumpItems(m, i + 1, FALSE)
    ELSE DumpItems(m, i + 1, first)

JsonDumps(m) == "{" \o DumpItems(m, 1, TRUE) \o "}"

\* CoibiteCode(prime, metadata) at time.time() = now; metadata None or {} is {}
CoibiteCode(prime, metadata, now) ==
    [prime |-> prime, timestamp |-> now, metadata |-> metadata, signature |-> NoneSig]

NoRecord == CoibiteCode(0, << >>, 0)

_hash_prime(self) == "sha256(" \o ToString(self.prime) \o ")"

_calculate_checksum(self) ==
    "sha256_16(" \o ToString(self.prime) \o ":" \o ToString(self.timestamp) \o ":"
                 \o JsonDumps(self.metadata) \o ")"

\* json.dumps({"prime_hash", "timestamp", "metadata"}, sort_keys=True)
_get_signing_data(self) ==
    "{\"metadata\": " \o JsonDumps(self.metadata)
    \o ", \"prime_hash\": \"" \o _hash_prime(self)
    \o "\", \"timestamp\": " \o ToString(self.timestamp) \o "}"

(***************************************************************************)
(* coibite_codes.py: the methods                                           *)
(*                                                                         *)
(* A token is the base64 text of a JSON object.  The model keeps it as the *)
(* layers decode peels off: wire says how far base64.b64decode, .decode    *)
(* and json.loads get ("ok": a JSON object comes out), fields is the set   *)
(* of keys of that object, and the other components are the values at      *)
(* those keys (meaningful only for keys in fields).                        *)
(***************************************************************************)
RequiredFields == {"version", "timestamp", "prime_bits", "prime_hash", "metadata", "checksum"}
OptionalFields == {"prime", "signature"}

\* str(prime) and int(text) over the primes of the model
IsIntText(text) == \E n \in PrimeValues : ToString(n) = text
ParseInt(text) == CHOOSE n \in PrimeValues : ToString(n) = text

NoToken ==
    [wire |-> "none", fields |-> {}, version |-> "", timestamp |-> 0, prime_bits |-> 0,
     prime_hash |-> "", metadata |-> << >>, checksum |-> "", prime |-> "",
     signature |-> [b64 |-> TRUE, bytes |-> NoneSig]]

\* include_prime when encode is called without the argument
IncludePrimeDefault == FALSE

\* encode with the prime put into the data whatever include_prime is
encode_PrimeAlways(self, include) ==
    [wire |-> "ok",
     fields |-> RequiredFields \cup {"prime"}
                \cup (IF Truthy(self.signature) THEN {"signature"} ELSE {}),
     version |-> VERSION,
     timestamp |-> self.timestamp,
     prime_bits |-> bit_length(self.prime),
     prime_hash |-> _hash_prime(self),
     metadata |-> self.metadata,
     checksum |-> _calculate_checksum(self),
     prime |-> ToString(self.prime),
     signature |-> [b64 |-> TRUE, bytes |-> self.signature]]

\* encode(include_prime)
encode(self, include) ==
    [wire |-> "ok",
     fields |-> RequiredFields
                \cup (IF include THEN {"prime"} ELSE {})
                \cup (IF Truthy(self.signature) THEN {"signature"} ELSE {}),
     version |-> VERSION,
     timestamp |-> self.timestamp,
     prime_bits |-> bit_length(self.prime),
     prime_hash |-> _hash_prime(self),
     metadata |-> self.metadata,
     checksum |-> _calculate_checksum(self),
     prime |-> IF include THEN ToString(self.prime) ELSE "",
     signature |-> [b64 |-> TRUE, bytes |-> self.signature]]

\* the body of decode's try block: the exception it raises, or "none"
DecodeTry(code) ==
    CASE code.wire = "bad_base64" -> "binascii.Error"
      [] code.wire = "bad_utf8" -> "UnicodeDecodeError"
      [] code.wire = "bad_json" -> "JSONDecodeError"
      [] code.wire = "not_object" -> "AttributeError"
      [] OTHER ->
            IF "version" \notin code.fields \/ code.version # VERSION THEN "ValueError"
            ELSE IF "prime" \in code.fields /\ ~IsIntText(code.prime) THEN "ValueError"
            ELSE IF "timestamp" \notin code.fields THEN "KeyError"
            ELSE IF "signature" \in code.fields /\ ~code.signature.b64
            THEN "binascii.Error"
            ELSE "none"

\* the instance decode builds when its try block raises nothing
DecodeInstance(code) ==
    [prime |-> IF "prime" \in code.fields THEN ParseInt(code.prime) ELSE 0,
     timestamp |-> code.timestamp,
     metadata |-> IF "metadata" \in code.fields THEN code.metadata ELSE << >>,
     signature |-> IF "signature" \in code.fields THEN code.signature.bytes ELSE NoneSig]

\* decode(code): except Exception turns whatever the try block raised into ValueError
decode(code) ==
    LET raised == DecodeTry(code)
    IN  IF raised # "none"
        THEN [error |-> "ValueError", instance |-> NoRecord]
        ELSE [error |-> "none", instance |-> DecodeInstance(code)]

\* sign(private_key): the record with its signature set
sign(self, private_key) ==
    [self EXCEPT !.signature = EcdsaSign(private_key, _get_signing_data(self))]

\* verify with the public_key.verify call left out: any signature is accepted
verify_KeyBlind(self, pub) ==
    IF ~Truthy(self.signature) THEN [result |-> FALSE, exception |-> "none"]
    ELSE [result |-> TRUE, exception |-> "none"]

\* verify(public_key): what it returns and the exception that leaves it
verify(self, pub) ==
    IF ~Truthy(self.signature) THEN [result |-> FALSE, exception |-> "none"]
    ELSE LET raised == EcdsaVerify(pub, self.signature, _get_signing_data(self))
         IN  IF raised = "ok" THEN [result |-> TRUE, exception |-> "none"]
             ELSE [result |-> FALSE, exception |-> "none"]

\* verify_integrity()
verify_integrity(self) ==
    IF "checksum" \notin DOMAIN self.metadata THEN TRUE
    ELSE self.metadata["checksum"] = _calculate_checksum(self)

(***************************************************************************)
(* SpecCode: one record from construction to verification                  *)
(***************************************************************************)
NotVerified ==
    [called |-> FALSE, target |-> "-", key |-> "-", signature |-> NoneSig,
     result |-> FALSE, exception |-> "none"]
NoIntegrity == [called |-> FALSE, result |-> FALSE]

\* CoibiteCode(prime, metadata)
New ==
    /\ cpc = "new"
    /\ \E prime \in PrimeValues, metadata \in Metadatas, now \in 1..MaxTime :
           rec' = CoibiteCode(prime, metadata, now)
    /\ cpc' = "live"
    /\ UNCHANGED <<include_prime, token, tamper, dec, dec_error, verified, integrity>>
    /\ UNCHANGED <<genVars, libVars>>

\* rec.sign(private_key)
SignCall ==
    /\ cpc = "live"
    /\ \E k \in PrivateKeys : rec' = sign(rec, k)
    /\ UNCHANGED <<cpc, include_prime, token, tamper, dec, dec_error, verified, integrity>>
    /\ UNCHANGED <<genVars, libVars>>

\* token = rec.encode(include_prime)
EncodeCall ==
    /\ cpc = "live"
    /\ \E include \in BOOLEAN :
           /\ include_prime' = include
           /\ token' = encode(rec, include)
    /\ cpc' = "encoded"
    /\ UNCHANGED <<rec, tamper, dec, dec_error, verified, integrity>>
    /\ UNCHANGED <<genVars, libVars>>

\* in transit: the metadata object of the token is replaced by another one, every
\* other field (the checksum too) left as it was
TamperMetadata ==
    /\ cpc = "encoded" /\ tamper = "none"
    /\ \E m \in Metadatas :
           /\ m # token.metadata
           /\ token' = [token EXCEPT !.metadata = m]
    /\ tamper' = "metadata"
    /\ UNCHANGED <<cpc, rec, include_prime, dec, dec_error, verified, integrity>>
    /\ UNCHANGED <<genVars, libVars>>

\* in transit: another version string
TamperVersion ==
    /\ cpc = "encoded" /\ tamper = "none"
    /\ \E v \in {"2.0", "1.00", "1"} : token' = [token EXCEPT !.version = v]
    /\ tamper' = "version"
    /\ UNCHANGED <<cpc, rec, include_prime, dec, dec_error, verified, integrity>>
    /\ UNCHANGED <<genVars, libVars>>

\* in transit: one key of the JSON object is removed
TamperField ==
    /\ cpc = "encoded" /\ tamper = "none"
    /\ \E f \in token.fields : token' = [token EXCEPT !.fields = @ \ {f}]
    /\ tamper' = "field"
    /\ UNCHANGED <<cpc, rec, include_prime, dec, dec_error, verified, integrity>>
    /\ UNCHANGED <<genVars, libVars>>

\* in transit: the text is no base64, no UTF-8, no JSON, or JSON that is no object
TamperWire ==
    /\ cpc = "encoded" /\ tamper = "none"
    /\ \E w \in {"bad_base64", "bad_utf8", "bad_json", "not_object"} :
           token' = [token EXCEPT !.wire = w]
    /\ tamper' = "wire"
    /\ UNCHANGED <<cpc, rec, include_prime, dec, dec_error, verified, integrity>>
    /\ UNCHANGED <<genVars, libVars>>

\* in transit: the signature field is set to the base64 of other bytes (none, junk,
\* another key's signature of the same data) or to text that is no base64
TamperSignature ==
    /\ cpc = "encoded" /\ tamper = "none"
    /\ \E b \in {EmptySig, JunkSig} \cup {EcdsaSign(k, _get_signing_data(rec)) : k \in PrivateKeys},
          ok \in BOOLEAN :
           /\ b # token.signature.bytes \/ "signature" \notin token.fields
           /\ token' = [token EXCEPT !.fields = @ \cup {"signature"},
                                     !.signature = [b64 |-> ok, bytes |-> b]]
    /\ tamper' = "signature"
    /\ UNCHANGED <<cpc, rec, include_prime, dec, dec_error, verified, integrity>>
    /\ UNCHANGED <<genVars, libVars>>

\* in transit: the prime field is set to text that is no integer
TamperPrime ==
    /\ cpc = "encoded" /\ tamper = "none"
    /\ token' = [token EXCEPT !.fields = @ \cup {"prime"}, !.prime = "x"]
    /\ tamper' = "prime"
    /\ UNCHANGED <<cpc, rec, include_prime, dec, dec_error, verified, integrity>>
    /\ UNCHANGED <<genVars, libVars>>

\* dec = CoibiteCode.decode(token)
DecodeCall ==
    /\ cpc = "encoded"
    /\ LET out == decode(token)
       IN  /\ dec' = out.instance
           /\ dec_error' = out.error
    /\ cpc' = "decoded"
    /\ UNCHANGED <<rec, include_prime, token, tamper, verified, integrity>>
    /\ UNCHANGED <<genVars, libVars>>

\* the record verify and verify_integrity are called on
Target(t) == IF t = "rec" THEN rec ELSE dec

\* rec.verify(public_key), or dec.verify(public_key) once decode returned dec; the
\* call is recorded with the signature the record held
VerifyCall ==
    /\ ~verified.called
    /\ \E t \in {"rec", "dec"}, pub \in VerifyArgs :
           /\ IF t = "rec" THEN cpc # "new" ELSE cpc = "decoded" /\ dec_error = "none"
           /\ LET out == verify(Target(t), pub)
              IN  verified' = [called |-> TRUE, target |-> t, key |-> pub,
                               signature |-> Target(t).signature,
                               result |-> out.result, exception |-> out.exception]
    /\ UNCHANGED <<cpc, rec, include_prime, token, tamper, dec, dec_error, integrity>>
    /\ UNCHANGED <<genVars, libVars>>

\* dec.verify_integrity() after decoding
VerifyIntegrityCall ==
    /\ ~integrity.called
    /\ cpc = "decoded" /\ dec_error = "none"
    /\ integrity' = [called |-> TRUE, result |-> verify_integrity(dec)]
    /\ UNCHANGED <<cpc, rec, include_prime, token, tamper, dec, dec_error, verified>>
    /\ UNCHANGED <<genVars, libVars>>

InitCode ==
    /\ cpc = "new"
    /\ rec = NoRecord
    /\ include_prime = FALSE
    /\ token = NoToken
    /\ tamper = "none"
    /\ dec = NoRecord
    /\ dec_error = "none"
    /\ verified = NotVerified
    /\ integrity = NoIntegrity

(***************************************************************************)
(* coibite_codes.py: batch_encode and batch_decode (SpecBatch)             *)
(***************************************************************************)
\* a batch holds at most MaxBatch primes, a metadata list at most MaxBatch dicts
MaxBatch == 2

\* the metadata_list argument: None, or a list of dicts
NoneList == [none |-> TRUE, items |-> << >>]
List(items) == [none |-> FALSE, items |-> items]

\* Python truth of a list argument: None and [] are false
ListTruthy(l) == ~l.none /\ Len(l.items) > 0

\* the dicts of a metadata list
BatchMetadatas == {m \in Metadatas : "checksum" \notin DOMAIN m}

SeqsUpTo(S, n) == UNION {[1..k -> S] : k \in 0..n}

PrimeLists == SeqsUpTo(PrimeValues, MaxBatch)
MetadataLists == {NoneList} \cup {List(items) : items \in SeqsUpTo(BatchMetadatas, MaxBatch)}

\* the values time.time() returns to n constructor calls made one after another
Clocks(n) == {t \in [1..n -> 1..MaxTime] : \A i \in 1..n, j \in 1..n : i <= j => t[i] <= t[j]}

\* batch_encode(primes, metadata_list), where the i-th CoibiteCode is built at nows[i]
batch_encode(primes, metadata_list, nows) ==
    IF ListTruthy(metadata_list) /\ Len(metadata_list.items) # Len(primes)
    THEN [error |-> "ValueError", codes |-> << >>]
    ELSE [error |-> "none",
          codes |-> [i \in 1..Len(primes) |->
                        LET metadata == IF ListTruthy(metadata_list)
                                        THEN metadata_list.items[i] ELSE << >>
                        IN  encode(CoibiteCode(primes[i], metadata, nows[i]),
                                   IncludePrimeDefault)]]

\* batch_decode(codes): the first decode that raises ends the comprehension
batch_decode(codes) ==
    IF \E i \in 1..Len(codes) : decode(codes[i]).error # "none"
    THEN [error |-> "ValueError", instances |-> << >>]
    ELSE [error |-> "none", instances |-> [i \in 1..Len(codes) |-> decode(codes[i]).instance]]

NoBatch ==
    [pc |-> "idle", primes |-> << >>, metadata_list |-> NoneList, error |-> "none",
     codes |-> << >>, decode_error |-> "none", instances |-> << >>]

\* codes = batch_encode(primes, metadata_list)
BatchEncodeCall ==
    /\ batch.pc = "idle"
    /\ \E primes \in PrimeLists, metadata_list \in MetadataLists :
        \E nows \in Clocks(Len(primes)) :
           LET out == batch_encode(primes, metadata_list, nows)
           IN  batch' = [batch EXCEPT !.pc = "encoded", !.primes = primes,
                                      !.metadata_list = metadata_list,
                                      !.error = out.error, !.codes = out.codes]
    /\ UNCHANGED <<genVars, codeVars, wpc, wheel_obj, wcall, cand, mrcall, rivers, rcall>>

\* batch_decode(codes) on the list batch_encode returned
BatchDecodeCall ==
    /\ batch.pc = "encoded" /\ batch.error = "none"
    /\ LET out == batch_decode(batch.codes)
       IN  batch' = [batch EXCEPT !.pc = "decoded", !.decode_error = out.error,
                                  !.instances = out.instances]
    /\ UNCHANGED <<genVars, codeVars, wpc, wheel_obj, wcall, cand, mrcall, rivers, rcall>>

InitBatch == batch = NoBatch

(***************************************************************************)
(* extended_wheel.py: one ExtendedWheel and the calls made on it           *)
(* (SpecWheel)                                                             *)
(***************************************************************************)
\* start and end arguments range over -MaxRange..MaxRange
MaxRange == 32
\* is_prime_wheel is called on -2..MaxCandidate
MaxCandidate == 130

\* the wheel_size arguments: the supported sizes and two that are not
WheelSizeArgs == DOMAIN WHEEL_BASIS \cup {0, 10}

\* the (start, end) arguments: every pair of -MaxRange..MaxRange (start > end
\* too), the range of the size-210 scenario, and ranges of SMALL_RANGE and more
RangeArgs ==
    ((-MaxRange..MaxRange) \X (-MaxRange..MaxRange))
    \cup {<<200, 230>>, <<0, SMALL_RANGE>>, <<2 - SMALL_RANGE, 25>>}

\* segment_size arguments: 1..MaxSegment, a size that cuts the ranges in a few
\* segments, and the default
MaxSegment == 3
SegmentSizeArgs == (1..MaxSegment) \cup {10, SEGMENT_SIZE}

\* the (start, end) arguments of the direct _segmented_sieve calls
SegmentRangeArgs == {-5, 0, 2, 25, 31} \X {10, 30, 70}

NoWheel ==
    [wheel_size |-> 0, basis_primes |-> << >>, decimal_aware |-> FALSE,
     spokes |-> << >>, spoke_count |-> 0]

\* no call made yet; the calls leave the wheel as it is, so a behaviour follows
\* the wheel up to its first call
NoCall == [op |-> "none", args |-> << >>, result |-> << >>]

\* wheel_obj = ExtendedWheel(wheel_size, decimal_aware)
NewWheel ==
    /\ wpc = "new"
    /\ \E wheel_size \in WheelSizeArgs, decimal_aware \in BOOLEAN :
           IF wheel_size \notin DOMAIN WHEEL_BASIS
           THEN /\ wpc' = "failed"
                /\ wheel_obj' = wheel_obj
           ELSE /\ wpc' = "ready"
                /\ wheel_obj' = ExtendedWheel(wheel_size, decimal_aware)
    /\ UNCHANGED <<genVars, codeVars, batch, wcall, cand, mrcall, rivers, rcall>>

\* list(wheel_obj.generate_candidates(start, end))
GenerateCandidatesCall ==
    /\ wpc = "ready" /\ wcall.op = "none"
    /\ \E r \in RangeArgs :
           wcall' = [op |-> "generate_candidates", args |-> r,
                     result |-> generate_candidates(wheel_obj, r[1], r[2])]
    /\ UNCHANGED <<genVars, codeVars, batch, wpc, wheel_obj, cand, mrcall, rivers, rcall>>

\* wheel_obj.sieve(start, end)
SieveCall ==
    /\ wpc = "ready" /\ wcall.op = "none"
    /\ \E r \in RangeArgs :
           wcall' = [op |-> "sieve", args |-> r, result |-> sieve(wheel_obj, r[1], r[2])]
    /\ UNCHANGED <<genVars, codeVars, batch, wpc, wheel_obj, cand, mrcall, rivers, rcall>>

\* wheel_obj._segmented_sieve(start, end, segment_size)
SegmentedSieveCall ==
    /\ wpc = "ready" /\ wcall.op = "none"
    /\ \E r \in SegmentRangeArgs, segment_size \in SegmentSizeArgs :
           wcall' = [op |-> "_segmented_sieve", args |-> <<r[1], r[2], segment_size>>,
                     result |-> _segmented_sieve(wheel_obj, r[1], r[2], segment_size)]
    /\ UNCHANGED <<genVars, codeVars, batch, wpc, wheel_obj, cand, mrcall, rivers, rcall>>

\* is_prime_wheel(n, wheel_size), which builds a wheel of its own; wheel_size is
\* that of the wheel at hand
IsPrimeWheelCall ==
    /\ wpc = "ready" /\ wcall.op = "none"
    /\ \E n \in -2..MaxCandidate :
           wcall' = [op |-> "is_prime_wheel", args |-> <<n, wheel_obj.wheel_size>>,
                     result |-> is_prime_wheel(n, wheel_obj.wheel_size)]
    /\ UNCHANGED <<genVars, codeVars, batch, wpc, wheel_obj, cand, mrcall, rivers, rcall>>

InitWheel ==
    /\ wpc = "new"
    /\ wheel_obj = NoWheel
    /\ wcall = NoCall

(***************************************************************************)
(* prime_generator.py: _generate_candidate and _miller_rabin called on     *)
(* their own (SpecMR)                                                      *)
(***************************************************************************)
\* _miller_rabin is called on -1..MaxTested and on the Carmichael number 561
MaxTested == 31
\* _generate_candidate is called with bits in 2..MaxCandidateBits
MaxCandidateBits == 5

MillerRabinArgs == (-1..MaxTested) \cup {561}

\* the generators the code draws from: the secrets module (os.urandom, a CSPRNG)
\* and the random module (the process-wide Mersenne Twister, which random.seed
\* seeds)
SECRETS == "secrets"
RANDOM == "random"

\* random.randrange(start, stop): an integer of [start, stop)
randrange(start, stop) == start..(stop - 1)

\* the witness loop with `left` rounds to go: every sequence of witnesses it may
\* draw; a witness that fails ends the loop (return False)
RECURSIVE WitnessLoop(_, _)
WitnessLoop(n, left) ==
    IF left = 0 THEN {<< >>}
    ELSE UNION {IF WitnessPasses(n, a)
                THEN {<<a>> \o rest : rest \in WitnessLoop(n, left - 1)}
                ELSE {<<a>>} : a \in randrange(2, n - 1)}

\* the witnesses a _miller_rabin(n, rounds) call may draw: none when n is
\* answered before the loop
WitnessesDrawn(n, rounds) ==
    IF n < 2 \/ n = 2 \/ n = 3 \/ n % 2 = 0 THEN {<< >>} ELSE WitnessLoop(n, rounds)

NoCandidate == [called |-> FALSE, bits |-> 0, value |-> 0, rng |-> "-"]
NoMillerRabin ==
    [called |-> FALSE, n |-> 0, rounds |-> 0, drawn |-> << >>, rng |-> "-",
     result |-> FALSE]

\* self._generate_candidate(bits)
GenerateCandidateCall ==
    /\ ~cand.called /\ ~mrcall.called
    /\ \E b \in 2..MaxCandidateBits : \E raw \in 0..(Pow2(b) - 1) :
           cand' = [called |-> TRUE, bits |-> b, value |-> _generate_candidate(b, raw),
                    rng |-> SECRETS]
    /\ UNCHANGED <<genVars, codeVars, batch, wpc, wheel_obj, wcall, mrcall, rivers, rcall>>

\* self._miller_rabin(n, rounds), on the candidate drawn or on any other n
MillerRabinCall ==
    /\ ~mrcall.called
    /\ \E n \in MillerRabinArgs, rounds \in 1..MaxRounds :
           /\ cand.called => n = cand.value
           /\ \E drawn \in WitnessesDrawn(n, rounds) :
                  mrcall' = [called |-> TRUE, n |-> n, rounds |-> rounds,
                             drawn |-> drawn, rng |-> RANDOM,
                             result |-> _miller_rabin(n, drawn)]
    /\ UNCHANGED <<genVars, codeVars, batch, wpc, wheel_obj, wcall, cand, rivers, rcall>>

InitMR ==
    /\ cand = NoCandidate
    /\ mrcall = NoMillerRabin

(***************************************************************************)
(* DecimalRivers: analyze_primes calls on one object, then one scoring     *)
(* call (SpecRivers)                                                       *)
(***************************************************************************)
MaxObserves == 3
MaxRanked == 2
MaxScored == 13

\* the lists handed to analyze_primes: none, basis primes only, primes of
\* several endings, and one with a composite ending in 5
ObservedLists ==
    {<< >>, <<2, 3>>, <<7>>, <<11>>, <<25, 7>>, <<11, 13>>, <<7, 11, 13, 17>>}
ScoreArgs == (0 - MaxScored)..MaxScored
RankLists == SeqsUpTo({5, 7, 9, 11, 13}, MaxRanked)

NoRiverCall == [observes |-> 0, op |-> "none", arg |-> 0, result |-> 0]

\* rivers.analyze_primes(primes)
AnalyzePrimesCall ==
    /\ rcall.op = "none"
    /\ rcall.observes < MaxObserves
    /\ \E primes \in ObservedLists : rivers' = analyze_primes(rivers, primes)
    /\ rcall' = [rcall EXCEPT !.observes = @ + 1]
    /\ UNCHANGED <<genVars, codeVars, batch, wpc, wheel_obj, wcall, cand, mrcall>>

\* rivers.get_river_score(candidate)
GetRiverScoreCall ==
    /\ rcall.op = "none"
    /\ \E c \in ScoreArgs :
           /\ rcall' = [rcall EXCEPT !.op = "get_river_score", !.arg = c,
                                     !.result = get_river_score(rivers.digit_frequencies, c)]
           /\ rivers' = [rivers EXCEPT
                             !.digit_frequencies = AfterScore(rivers.digit_frequencies, c)]
    /\ UNCHANGED <<genVars, codeVars, batch, wpc, wheel_obj, wcall, cand, mrcall>>

\* rivers.optimize_candidates(candidates)
OptimizeCandidatesCall ==
    /\ rcall.op = "none"
    /\ \E cs \in RankLists :
           /\ rcall' = [rcall EXCEPT !.op = "optimize_candidates", !.arg = cs,
                                     !.result = optimize_candidates(rivers.digit_frequencies, cs)]
           /\ rivers' = [rivers EXCEPT
                             !.digit_frequencies = AfterScores(rivers.digit_frequencies, cs, 1)]
    /\ UNCHANGED <<genVars, codeVars, batch, wpc, wheel_obj, wcall, cand, mrcall>>

InitRivers ==
    /\ rivers = DecimalRivers
    /\ rcall = NoRiverCall

InitLib == InitBatch /\ InitWheel /\ InitMR /\ InitRivers

(***************************************************************************)
(* The specifications                                                      *)
(***************************************************************************)
Init ==InitGen /\ InitCode /\ InitLib

Next ==
    \/ \E b \in BitsArgs : generate_prime(b)
    \/ \E b \in BitsArgs : generate_prime_pair(b)
    \/ \E b \in BitsArgs : generate_prime_with_provenance(b)
    \/ decimal_rivers_analyze_primes
    \/ _generate_prime_internal

Spec == Init /\ [][Next]_vars

\* a call that was made keeps running: the loop of _generate_prime_internal takes
\* its next pass as long as it has one to take
SpecFair == Init /\ [][Next]_vars /\ WF_vars(_generate_prime_internal)

\* the generator of SpecCode is one generator, never called
InitCodeOnly ==
    /\ InitCode
    /\ InitGen
    /\ gen = PrimeGenerator(30030, TRUE, TRUE, 1)
    /\ InitLib

NextCode ==
    \/ New
    \/ SignCall
    \/ EncodeCall
    \/ TamperMetadata
    \/ TamperVersion
    \/ TamperField
    \/ TamperWire
    \/ TamperSignature
    \/ TamperPrime
    \/ DecodeCall
    \/ VerifyCall
    \/ VerifyIntegrityCall

SpecCode == InitCodeOnly /\ [][NextCode]_vars

NextBatch ==
    \/ BatchEncodeCall
    \/ BatchDecodeCall

SpecBatch == InitCodeOnly /\ [][NextBatch]_vars

\* one program that either works on a single CoibiteCode or makes the batch calls
NextPrivacy ==
    \/ batch.pc = "idle" /\ NextCode
    \/ cpc = "new" /\ NextBatch

SpecPrivacy == InitCodeOnly /\ [][NextPrivacy]_vars

NextWheel ==
    \/ NewWheel
    \/ GenerateCandidatesCall
    \/ SieveCall
    \/ SegmentedSieveCall
    \/ IsPrimeWheelCall

SpecWheel == InitCodeOnly /\ [][NextWheel]_vars

NextMR ==
    \/ GenerateCandidateCall
    \/ MillerRabinCall

SpecMR == InitCodeOnly /\ [][NextMR]_vars

NextRivers ==
    \/ AnalyzePrimesCall
    \/ GetRiverScoreCall
    \/ OptimizeCandidatesCall

SpecRivers == InitCodeOnly /\ [][NextRivers]_vars

(***************************************************************************)
(* The claims                                                              *)
(***************************************************************************)

\* C1: a generate_prime(bits) call with bits >= 16 ends by returning a value of
\* exactly bits bits, odd, that passes Miller-Rabin with the generator's
\* miller_rabin_rounds rounds.
C1_GeneratePrimeReturnsPrime ==
    (api = "generate_prime" /\ pc = "done" /\ bits >= MIN_BITS) =>
        /\ error = "none"
        /\ bit_length(ret.p) = bits
        /\ ret.p % 2 = 1
        /\ Len(mr_witnesses) = gen.miller_rabin_rounds
        /\ _miller_rabin(ret.p, mr_witnesses)

\* C2: a generate_prime_pair(bits) call with bits >= 16 ends by returning two
\* distinct primes, and the record returned for q is the record of that q.
C2_PairDistinct ==
    (api = "generate_prime_pair" /\ pc = "done" /\ bits >= MIN_BITS) =>
        /\ error = "none"
        /\ ret.p # ret.q
        /\ gen.track_provenance =>
               ret.coibite_q.present /\ ret.coibite_q.prime = ret.q

\* C3: generate_prime fails with ValueError exactly when bits < 16, then without
\* having drawn a candidate or built a record; with bits >= 16 it ends with no
\* error.
C3_FailsFastIffBelowMinimum ==
    (api = "generate_prime" /\ pc = "done") =>
        /\ (error = "ValueError") <=> (bits < MIN_BITS)
        /\ error = "ValueError" => draws = 0 /\ created = 0
        /\ bits >= MIN_BITS => error = "none"

\* C4: decoding an untouched token gives back the record: the same timestamp,
\* metadata and signature, the prime when it was included (the placeholder 0
\* when it was not), and encoding the decoded record again gives the same
\* version, prime_bits, prime_hash and checksum.
C4_RoundTrip ==
    (cpc = "decoded" /\ tamper = "none") =>
        /\ dec_error = "none"
        /\ dec.timestamp = rec.timestamp
        /\ dec.metadata = rec.metadata
        /\ dec.signature = rec.signature
        /\ dec.prime = (IF include_prime THEN rec.prime ELSE 0)
        /\ LET again == encode(dec, include_prime)
           IN  /\ again.version = token.version
               /\ again.prime_bits = token.prime_bits
               /\ again.prime_hash = token.prime_hash
               /\ again.checksum = token.checksum

\* C5: a token whose metadata was changed in transit (checksum field untouched)
\* either fails to decode or decodes to a record whose verify_integrity is false.
C5_TamperEvident ==
    (cpc = "decoded" /\ tamper = "metadata") =>
        dec_error # "none" \/ ~verify_integrity(dec)

\* C6: a record signed with key A and encoded without its prime verifies under
\* A's public key after decoding the untouched token.
C6_VerifiableWithoutPrime ==
    (/\ verified.called /\ verified.target = "dec"
     /\ tamper = "none" /\ ~include_prime
     /\ rec.signature.kind = "ecdsa"
     /\ verified.signature = rec.signature
     /\ verified.key = public_key(rec.signature.key)) =>
        verified.result

\* C7: verify never raises and never changes the record it is called on; it
\* returns false under a public key other than the signing key's, on an
\* unsigned record, and on a record whose signature bytes are no signature.
C7_VerifyState ==
    verified.called =>
        /\ verified.exception = "none"
        /\ (verified.signature.kind = "ecdsa"
            /\ verified.key # public_key(verified.signature.key)) => ~verified.result
        /\ ~Truthy(verified.signature) => ~verified.result
        /\ verified.signature.kind = "junk" => ~verified.result

C7_VerifyTotalKeySpecific ==
    /\ []C7_VerifyState
    /\ [][verified' # verified => rec' = rec /\ dec' = dec]_vars

\* C7 witness: verify was called with key B's public key on a record signed by A
C7_Witness ==
    /\ verified.called
    /\ verified.target = "rec"
    /\ verified.signature = EcdsaSign("A", _get_signing_data(rec))
    /\ verified.key = "B"
    /\ ~verified.result

\* a token as encode writes them: it parses, holds every required field, the
\* supported version, an integer as prime and base64 as signature
WellFormed(code) ==
    /\ code.wire = "ok"
    /\ RequiredFields \subseteq code.fields
    /\ code.version = VERSION
    /\ "prime" \in code.fields => IsIntText(code.prime)
    /\ "signature" \in code.fields => code.signature.b64

\* C8: decode raises ValueError exactly for the tokens that do not parse, lack a
\* required field or carry another version; no other exception leaves it.
C8_DecodeFailsIffMalformed ==
    cpc = "decoded" =>
        /\ dec_error \in {"none", "ValueError"}
        /\ (dec_error = "ValueError") <=> ~WellFormed(token)

\* C9: the checksum field of an untouched token equals the checksum computed
\* from the decoded record.
C9_ChecksumRecomputable ==
    (cpc = "decoded" /\ tamper = "none" /\ dec_error = "none") =>
        token.checksum = _calculate_checksum(dec)

\* C10: verify_integrity on the record decoded from an untouched token is true.
C10_IntegrityAfterRoundTrip ==
    (integrity.called /\ tamper = "none") => integrity.result

\* C11: batch_encode raises ValueError whenever a metadata list is supplied (an
\* empty list too) whose length differs from the length of the prime list, and
\* then returns no token.
C11_BatchLengthMismatch ==
    (batch.pc # "idle" /\ ~batch.metadata_list.none
     /\ Len(batch.metadata_list.items) # Len(batch.primes)) =>
        batch.error = "ValueError" /\ batch.codes = << >>

RECURSIVE GCD(_, _)
GCD(a, b) == IF b = 0 THEN a ELSE GCD(b, a % b)

\* Euler's totient of the supported wheel sizes
Totient == [w \in DOMAIN WHEEL_BASIS |->
               CASE w = 6 -> 2 [] w = 30 -> 8 [] w = 210 -> 48 [] w = 2310 -> 480
                 [] w = 30030 -> 5760]

\* C12: the spokes of a wheel just constructed are exactly the integers of
\* [1, wheel_size) coprime to wheel_size, in ascending order, and their count is
\* Euler's totient of wheel_size.
C12_SpokesState ==
    (wpc = "ready" /\ wcall.op = "none") =>
        LET size == wheel_obj.wheel_size
            spokes == wheel_obj.spokes
            spoke_set == {spokes[k] : k \in 1..Len(spokes)}
        IN  /\ \A k \in 1..Len(spokes) :
                   1 <= spokes[k] /\ spokes[k] < size /\ GCD(spokes[k], size) = 1
            /\ \A i \in 1..(size - 1) : GCD(i, size) = 1 => i \in spoke_set
            /\ \A k \in 1..(Len(spokes) - 1) : spokes[k] < spokes[k + 1]
            /\ Len(spokes) = Totient[size]
            /\ wheel_obj.spoke_count = Totient[size]

\* C12, for the lifetime of the wheel: the spokes are as above once the
\* constructor returned, and no call changes the wheel.
C12_SpokesAreTotatives ==
    /\ []C12_SpokesState
    /\ [][wpc = "ready" => wheel_obj' = wheel_obj]_vars

\* C12 witness: a wheel of size 30030 was constructed, with 5760 spokes
C12_Witness ==
    /\ wpc = "ready"
    /\ wcall.op = "none"
    /\ wheel_obj.wheel_size = 30030
    /\ Len(wheel_obj.spokes) = 5760

\* n is a prime number
IsPrime(n) == n >= 2 /\ \A d \in 2..ISqrt(n) : n % d # 0

\* the integers of [start, end] in ascending order
Interval(start, end) == [i \in 1..(end - start + 1) |-> start + i - 1]

\* C13: on a wheel constructed with the default decimal_aware,
\* generate_candidates(start, end) yields exactly the basis primes of [start, end]
\* and the integers of [start, end] coprime to every basis prime, each once.
C13_CandidatesExact ==
    (wcall.op = "generate_candidates" /\ wheel_obj.decimal_aware) =>
        LET start == wcall.args[1]
            end == wcall.args[2]
            basis == wheel_obj.basis_primes
            expected == {basis[k] : k \in {j \in 1..Len(basis) :
                                              start <= basis[j] /\ basis[j] <= end}}
                        \cup {i \in start..end : CoprimeToBasis(i, basis)}
        IN  /\ {wcall.result[k] : k \in 1..Len(wcall.result)} = expected
            /\ Len(wcall.result) = Cardinality(expected)

\* C14: the values generate_candidates(start, end) yields are strictly ascending,
\* for every start (start <= 1 and negative start too).
C14_CandidatesAscending ==
    wcall.op = "generate_candidates" =>
        \A k \in 1..(Len(wcall.result) - 1) : wcall.result[k] < wcall.result[k + 1]

\* C15: sieve(start, end) returns the primes of [start, end] in ascending order,
\* all of them and nothing else.
C15_SieveExact ==
    wcall.op = "sieve" =>
        wcall.result = SelectSeq(Interval(wcall.args[1], wcall.args[2]), IsPrime)

\* C16: is_prime_wheel(n, wheel_size) is true exactly when n is prime.
C16_IsPrimeWheelIffPrime ==
    wcall.op = "is_prime_wheel" => (wcall.result <=> IsPrime(wcall.args[1]))

\* C17: _miller_rabin returns True for every prime n, whatever witnesses of
\* [2, n-2] its rounds draw; it returns False for n < 2 and for even n > 2, True
\* for 2 and 3, each time without drawing a witness.
C17_NeverRejectsPrime ==
    mrcall.called =>
        /\ IsPrime(mrcall.n) => mrcall.result
        /\ (IsPrime(mrcall.n) /\ mrcall.n > 3) => Len(mrcall.drawn) = mrcall.rounds
        /\ mrcall.n < 2 => ~mrcall.result /\ mrcall.drawn = << >>
        /\ mrcall.n \in {2, 3} => mrcall.result /\ mrcall.drawn = << >>
        /\ (mrcall.n > 2 /\ mrcall.n % 2 = 0) => ~mrcall.result /\ mrcall.drawn = << >>

\* C17 witness: the prime 29 was tested with MaxRounds rounds, the last witness
\* being 17, and accepted
C17_Witness ==
    /\ mrcall.called
    /\ mrcall.n = 29
    /\ Len(mrcall.drawn) = MaxRounds
    /\ mrcall.drawn[MaxRounds] = 17
    /\ mrcall.result

\* the pairs <<n, a>> of an odd composite n >= 5 among the numbers tested and a
\* witness a of [2, n-2] that lets a round pass
StrongLiars ==
    UNION {{<<n, a>> : a \in {w \in 2..(n - 2) : WitnessPasses(n, w)}} :
              n \in {m \in MillerRabinArgs : m >= 5 /\ m % 2 = 1 /\ ~IsPrime(m)}}

\* C18: for an odd composite n >= 5 at most a quarter of the witnesses of
\* [2, n-2] let a round pass, and _miller_rabin returns True only when it drew
\* all its rounds and every witness drawn is one of those.
C18_FalsePositiveBound ==
    (mrcall.called /\ mrcall.n >= 5 /\ mrcall.n % 2 = 1 /\ ~IsPrime(mrcall.n)) =>
        /\ 4 * Cardinality({p \in StrongLiars : p[1] = mrcall.n}) <= mrcall.n - 3
        /\ mrcall.result <=>
               /\ Len(mrcall.drawn) = mrcall.rounds
               /\ \A k \in 1..Len(mrcall.drawn) :
                      <<mrcall.n, mrcall.drawn[k]>> \in StrongLiars

\* C18 witness: the Carmichael number 561 was accepted, every round having drawn
\* one of its strong liars
C18_Witness ==
    /\ mrcall.called
    /\ mrcall.n = 561
    /\ mrcall.rounds = MaxRounds
    /\ mrcall.result

\* the generators that are cryptographically secure
CSPRNG == {SECRETS}

\* C19: every witness _miller_rabin draws lies in [2, n-2] and comes from a
\* cryptographically secure generator, as the candidates do.
C19_WitnessesFromCSPRNG ==
    /\ cand.called => cand.rng \in CSPRNG
    /\ (mrcall.called /\ mrcall.drawn # << >>) =>
           /\ \A k \in 1..Len(mrcall.drawn) :
                  2 <= mrcall.drawn[k] /\ mrcall.drawn[k] <= mrcall.n - 2
           /\ mrcall.rng \in CSPRNG

\* C20: get_river_score(c) is exactly 0 when the last digit of c is one of 0, 2,
\* 4, 5, 6, 8; otherwise it is 0.5 when nothing has been counted and
\* frequency[last digit] / total when something has; it lies in [0, 1]; and
\* get_river_score and optimize_candidates leave the frequency and the
\* transition counters as they were.
C20_ScoreState ==
    rcall.op = "get_river_score" =>
        LET last == rcall.arg % 10
            counted == {d \in 0..9 : d \in DOMAIN rivers.digit_frequencies}
            total == SumTo(rivers.digit_frequencies, 9)
            freq == IF last \in counted THEN rivers.digit_frequencies[last] ELSE 0
            num == rcall.result[1]
            den == rcall.result[2]
        IN  /\ den > 0 /\ 0 <= num /\ num <= den
            /\ last \in {0, 2, 4, 5, 6, 8} => num = 0
            /\ last \in {1, 3, 7, 9} /\ total = 0 => 2 * num = den
            /\ last \in {1, 3, 7, 9} /\ total > 0 => num * total = freq * den

C20_ScoreAndRankReadOnly ==
    rcall'.op # rcall.op =>
        /\ rivers'.digit_frequencies = rivers.digit_frequencies
        /\ rivers'.transition_matrix = rivers.transition_matrix

C20_RiverScore == []C20_ScoreState /\ [][C20_ScoreAndRankReadOnly]_vars

\* a score taken for the ending 7 after analyze_primes calls counted a composite
\* ending in 5, a prime ending in 7 and one other
C20_Witness ==
    /\ rcall.op = "get_river_score"
    /\ rcall.observes = MaxObserves
    /\ rcall.arg % 10 = 7
    /\ 5 \in DOMAIN rivers.digit_frequencies
    /\ rcall.result = <<1, 3>>

\* C21: the token encode returns holds the field "prime" exactly when
\* include_prime was true, and false is what an omitted argument means; decode
\* of a token without the field gives a record whose prime is the placeholder 0
\* (no prime value); the tokens of batch_encode never hold the field.
C21_PrivacyByDefault ==
    /\ ~IncludePrimeDefault
    /\ cpc \in {"encoded", "decoded"} /\ tamper = "none" =>
           /\ "prime" \in token.fields <=> include_prime
           /\ include_prime => token.prime = ToString(rec.prime)
    /\ cpc = "decoded" /\ dec_error = "none" /\ "prime" \notin token.fields =>
           dec.prime = 0
    /\ batch.pc # "idle" =>
           \A i \in 1..Len(batch.codes) : "prime" \notin batch.codes[i].fields
    /\ batch.pc = "decoded" /\ batch.decode_error = "none" =>
           \A i \in 1..Len(batch.instances) : batch.instances[i].prime = 0

\* a record of the prime 32771 encoded without the prime and decoded
C21_Witness ==
    /\ cpc = "decoded" /\ tamper = "none" /\ dec_error = "none"
    /\ ~include_prime
    /\ rec.prime = 32771
    /\ "prime" \notin token.fields
    /\ dec.prime = 0

\* C22: a generate_prime(bits) call with bits >= 16 returns; with
\* track_provenance it returns a record of the prime returned whose metadata
\* holds bits, the wheel size, whether decimal rivers are on, the Miller-Rabin
\* rounds and the generation time, and without it no record; and
\* generate_prime_with_provenance returns a record whatever track_provenance
\* the caller passed.
C22_ProvenanceRecord ==
    (api \in {"generate_prime", "generate_prime_with_provenance"}
        /\ pc = "done" /\ bits >= MIN_BITS) =>
        /\ error = "none"
        /\ gen.track_provenance =>
               /\ ret.coibite_p.present
               /\ ret.coibite_p.prime = ret.p
               /\ ret.coibite_p.metadata.bits = bits
               /\ ret.coibite_p.metadata.wheel_size = gen.wheel_size
               /\ ret.coibite_p.metadata.decimal_rivers_enabled = gen.decimal_rivers
               /\ ret.coibite_p.metadata.miller_rabin_rounds = gen.miller_rabin_rounds
               /\ ret.coibite_p.metadata.generation_time_seconds >= 0
        /\ ~gen.track_provenance => ~ret.coibite_p.present
        /\ api = "generate_prime_with_provenance" => ret.coibite_p.present

\* C23: every pass of the loop of _generate_prime_internal either discards the
\* candidate it drew, and the loop draws again, or accepts it; it accepts only a
\* candidate that passed the decimal rivers filter (when enabled: score >= 0.3),
\* the wheel check and Miller-Rabin with miller_rabin_rounds rounds, and the
\* value returned is that candidate.
C23_LoopPass ==
    (pc = "loop" /\ draws' = draws + 1) =>
        \/ UNCHANGED <<ret, pc, error, leg>>
        \/ LET c == candidate'
               score == get_river_score(gen.digit_frequencies, c)
           IN  /\ error' = "none"
               /\ IF leg = "q" THEN ret'.q = c ELSE ret'.p = c
               /\ gen.decimal_rivers => 10 * score[1] >= 3 * score[2]
               /\ is_prime_wheel(c, gen.wheel_size)
               /\ Len(mr_witnesses') = gen.miller_rabin_rounds
               /\ _miller_rabin(c, mr_witnesses')

C23_AcceptedOnlyAfterAllStages == [][C23_LoopPass]_vars

\* C24: a call with bits >= 16 whose loop has started eventually accepts a
\* candidate and returns, whatever the DecimalRivers of the generator has
\* counted.
C24_EventuallyReturns == (pc = "loop") ~> (pc = "done" /\ error = "none")

\* C25: _segmented_sieve(start, end, segment_size) returns the sequence
\* _simple_sieve(start, end) returns, whatever the segment size, and so does
\* sieve(start, end) on either side of its threshold, start below 2 included.
C25_SegmentedEqualsSimple ==
    /\ wcall.op = "_segmented_sieve" =>
           wcall.result = _simple_sieve(wheel_obj, wcall.args[1], wcall.args[2])
    /\ wcall.op = "sieve" /\ wcall.args[2] >= 2 =>
           wcall.result = _simple_sieve(wheel_obj, wcall.args[1], wcall.args[2])

====
